---------------------------- MODULE Spec2Model ----------------------------
(***************************************************************************)
(* Model of daart/eval.py: the evaluation functions of the daart package.  *)
(*                                                                         *)
(*   get_precision_recall   per-class precision / recall / f1              *)
(*   int_over_union         per-value intersection over union              *)
(*   run_lengths            distribution of run lengths per value          *)
(*   load_metrics_csv_as_df wide metrics csv -> long table                 *)
(*   plot_training_curves   load, filter, facet, save, close               *)
(*                                                                         *)
(* Every function is a small machine over a record of its locals, one      *)
(* action per block of statements.  Floating point ratios are kept as      *)
(* exact fractions in lowest terms, with the two special values nan and    *)
(* inf that numpy produces for 0/0 and x/0.                                *)
(***************************************************************************)
EXTENDS Integers, Sequences, FiniteSets, TLC

VARIABLES pr, iou, rl, ld, plot

vars == <<pr, iou, rl, ld, plot>>

\* The functions share no state: a behaviour is one call of one of them.
NoCall ==
    /\ pr.pc = "idle"
    /\ iou.pc = "idle"
    /\ rl.pc = "idle"
    /\ ld.pc = "idle"
    /\ plot.pc = "idle"

---------------------------------------------------------------------------
(* Bounds of the explored inputs.                                          *)

\* longest label array handed to get_precision_recall / int_over_union
MaxLen == 2
\* largest label value in those arrays (0 is the background class)
MaxVal == 3
\* longest array handed to run_lengths
MaxRunLen == 4
\* largest value in the arrays handed to run_lengths
MaxRunVal == 2
\* most rows in a metrics csv
MaxRows == 2

---------------------------------------------------------------------------
(* Sequences and counting.                                                 *)

SeqsUpTo(S, n) == UNION {[1..k -> S] : k \in 0..n}

Range(s) == {s[i] : i \in DOMAIN s}

RECURSIVE SumOver(_, _)
SumOver(f, S) ==
    IF S = {} THEN 0
    ELSE LET x == CHOOSE y \in S : TRUE IN f[x] + SumOver(f, S \ {x})

SumSeq(s) == SumOver(s, DOMAIN s)

Max(S) == CHOOSE x \in S : \A y \in S : y <= x

\* the elements of S in increasing order (np.unique, np.arange)
RECURSIVE Sorted(_)
Sorted(S) ==
    IF S = {} THEN <<>>
    ELSE LET m == CHOOSE x \in S : \A y \in S : x <= y
         IN <<m>> \o Sorted(S \ {m})

\* s[idxs] for an increasing index sequence idxs (numpy fancy indexing)
Take(s, idxs) == [k \in DOMAIN idxs |-> s[idxs[k]]]

---------------------------------------------------------------------------
(* Floating point values: a fraction n/d in lowest terms, nan or inf.      *)

RECURSIVE GCD(_, _)
GCD(a, b) == IF b = 0 THEN a ELSE GCD(b, a % b)

Frac(a, b) ==
    LET g == GCD(a, b) IN [k |-> "num", n |-> a \div g, d |-> b \div g]

NaN == [k |-> "nan", n |-> 0, d |-> 1]
Inf == [k |-> "inf", n |-> 0, d |-> 1]
Zero == Frac(0, 1)
One == Frac(1, 1)
Two == Frac(2, 1)

IsNum(x) == x.k = "num"
IsNaN(x) == x.k = "nan"

\* numpy arithmetic on non-negative values
FMul(x, y) ==
    IF IsNaN(x) \/ IsNaN(y) THEN NaN
    ELSE IF ~IsNum(x) \/ ~IsNum(y)
         THEN (IF x = Zero \/ y = Zero THEN NaN ELSE Inf)
    ELSE Frac(x.n * y.n, x.d * y.d)

FAdd(x, y) ==
    IF IsNaN(x) \/ IsNaN(y) THEN NaN
    ELSE IF ~IsNum(x) \/ ~IsNum(y) THEN Inf
    ELSE Frac(x.n * y.d + y.n * x.d, x.d * y.d)

FDiv(x, y) ==
    IF IsNaN(x) \/ IsNaN(y) THEN NaN
    ELSE IF ~IsNum(y) THEN (IF IsNum(x) THEN Zero ELSE NaN)
    ELSE IF ~IsNum(x) THEN Inf
    ELSE IF y.n = 0 THEN (IF x.n = 0 THEN NaN ELSE Inf)
    ELSE Frac(x.n * y.d, x.d * y.n)

\* 0 <= x <= 1
InUnit(x) == IsNum(x) /\ 0 <= x.n /\ x.n <= x.d

---------------------------------------------------------------------------
(* get_precision_recall                                                    *)

Labels == SeqsUpTo(0..MaxVal, MaxLen)

\* the n_classes argument: <<>> is None, <<k>> is the integer k
NClassesArgs == {<<>>} \cup {<<k>> : k \in 1..MaxVal}

PRIdle ==
    [pc |-> "idle", true_classes |-> <<>>, pred_classes |-> <<>>,
     background |-> 0, arg_n_classes |-> <<>>, n_classes |-> 0,
     precision |-> <<>>, recall |-> <<>>, f1 |-> <<>>]

\* line 37: assert true_classes.shape[0] == pred_classes.shape[0]
ShapeUnchecked(t, p) == TRUE
ShapeAssert(t, p) == Len(t) = Len(p)

\* line 38: assert background == 0
BackgroundAssert(bg) == bg = 0

\* line 41: np.where(true_classes != background)[0], as 1-based positions
AllIdxs(t, bg) == Sorted(DOMAIN t)
ObsIdxs(t, bg) == Sorted({i \in DOMAIN t : t[i] # bg})

\* line 43: len(np.unique(true_classes[obs_idxs]))
MaxObserved(t, obs) == IF obs = <<>> THEN 0 ELSE Max(Range(Take(t, obs)))
InferClasses(t, obs) == Cardinality(Range(Take(t, obs)))

\* sklearn's per-label counts over the scored positions
Count(s, c) == Cardinality({i \in DOMAIN s : s[i] = c})
TruePos(yt, yp, c) == Cardinality({i \in DOMAIN yt : yt[i] = c /\ yp[i] = c})

\* sklearn _prf_divide with zero_division=0
PrfDivide(num, den) == IF den = 0 THEN Zero ELSE Frac(num, den)

\* precision_score(..., labels=[c], average=None, zero_division=0)
PrecisionScore(yt, yp, c) == PrfDivide(TruePos(yt, yp, c), Count(yp, c))

\* recall_score(..., labels=[c], average=None, zero_division=0)
RecallScore(yt, yp, c) == PrfDivide(TruePos(yt, yp, c), Count(yt, c))

\* line 54: if precision[n] == 0 and recall[n] == 0
NeverReplaced(p, r) == FALSE
NoGroundTruth(p, r) == p = Zero /\ r = Zero

\* line 61: f1 = 2 * p * r / (p + r), elementwise
F1Score(p, r) == FDiv(FMul(FMul(Two, p), r), FAdd(p, r))

\* lines 14, 37-38: the call and its two assertions
PRCall ==
    /\ NoCall
    /\ \E t \in Labels, p \in Labels, bg \in 0..1, nc \in NClassesArgs :
         pr' = [PRIdle EXCEPT
                  !.pc = IF ShapeAssert(t, p) /\ BackgroundAssert(bg)
                         THEN "asserted" ELSE "raised",
                  !.true_classes = t, !.pred_classes = p,
                  !.background = bg, !.arg_n_classes = nc]
    /\ UNCHANGED <<iou, rl, ld, plot>>

PRObs == ObsIdxs(pr.true_classes, pr.background)

PRInferred ==
    IF pr.arg_n_classes = <<>>
    THEN InferClasses(pr.true_classes, PRObs)
    ELSE pr.arg_n_classes[1]

\* lines 41-50: the scored positions, n_classes, precision and recall.
\* pred_classes[obs_idxs] raises IndexError on a position past its end.
PRScores ==
    /\ pr.pc = "asserted"
    /\ PRInferred > 0
    /\ pr' = IF \E i \in Range(PRObs) : i > Len(pr.pred_classes)
             THEN [pr EXCEPT !.pc = "raised"]
             ELSE LET yt == Take(pr.true_classes, PRObs)
                      yp == Take(pr.pred_classes, PRObs)
                  IN [pr EXCEPT
                        !.pc = "scored",
                        !.n_classes = PRInferred,
                        !.precision =
                            [c \in 1..PRInferred |-> PrecisionScore(yt, yp, c)],
                        !.recall =
                            [c \in 1..PRInferred |-> RecallScore(yt, yp, c)]]
    /\ UNCHANGED <<iou, rl, ld, plot>>

\* lines 45-50 with labels=np.arange(1, 1), the empty label list (every true
\* label is background and n_classes is inferred as 0): the library either
\* returns empty arrays ...
PRScoresNoLabels ==
    /\ pr.pc = "asserted"
    /\ PRInferred = 0
    /\ pr' = [pr EXCEPT !.pc = "scored", !.n_classes = 0]
    /\ UNCHANGED <<iou, rl, ld, plot>>

\* ... or rejects the empty label list, depending on its version
PRScoresNoLabelsRaise ==
    /\ pr.pc = "asserted"
    /\ PRInferred = 0
    /\ pr' = [pr EXCEPT !.pc = "raised"]
    /\ UNCHANGED <<iou, rl, ld, plot>>

\* lines 53-56: replace 0s with NaNs
PRReplace ==
    /\ pr.pc = "scored"
    /\ pr' = [pr EXCEPT
                !.pc = "replaced",
                !.precision =
                    [n \in DOMAIN pr.precision |->
                        IF NoGroundTruth(pr.precision[n], pr.recall[n])
                        THEN NaN ELSE pr.precision[n]],
                !.recall =
                    [n \in DOMAIN pr.recall |->
                        IF NoGroundTruth(pr.precision[n], pr.recall[n])
                        THEN NaN ELSE pr.recall[n]]]
    /\ UNCHANGED <<iou, rl, ld, plot>>

\* lines 59-62: f1 and the returned dict
PRReturn ==
    /\ pr.pc = "replaced"
    /\ pr' = [pr EXCEPT
                !.pc = "done",
                !.f1 = [n \in DOMAIN pr.precision |->
                           F1Score(pr.precision[n], pr.recall[n])]]
    /\ UNCHANGED <<iou, rl, ld, plot>>

---------------------------------------------------------------------------
(* int_over_union                                                          *)

\* a dict with no entries
EmptyDict == [k \in {} |-> 0]

IoUIdle ==
    [pc |-> "idle", array1 |-> <<>>, array2 |-> <<>>, vals |-> <<>>,
     k |-> 0, iou |-> EmptyDict]

\* numpy broadcasting of two 1-D shapes: equal lengths, or a length of 1
\* stretched to the other length
Broadcastable(a, b) == Len(a) = Len(b) \/ Len(a) = 1 \/ Len(b) = 1

Stretch(a, n) == IF Len(a) = n THEN a ELSE [i \in 1..n |-> a[1]]

BroadcastLen(a, b) ==
    IF Len(a) = Len(b) THEN Len(a) ELSE IF Len(a) = 1 THEN Len(b) ELSE Len(a)

\* line 81: np.unique(np.concatenate([np.unique(array1), np.unique(array2)]))
UniqueVals(a, b) == Sorted(Range(a) \cup Range(b))

\* line 84: np.sum((array1 == val) & (array2 == val))
Intersection(a, b, val) ==
    Cardinality({i \in DOMAIN a : a[i] = val /\ b[i] = val})

\* line 85: np.sum((array1 == val) | (array2 == val))
UnionAsIntersection(a, b, val) ==
    Cardinality({i \in DOMAIN a : a[i] = val /\ b[i] = val})
Union(a, b, val) ==
    Cardinality({i \in DOMAIN a : a[i] = val \/ b[i] = val})

\* lines 81-82: the values and the dict of NaNs
IoUCall ==
    /\ NoCall
    /\ \E a \in Labels, b \in Labels :
         LET vs == UniqueVals(a, b)
         IN iou' = [IoUIdle EXCEPT
                      !.pc = "loop", !.array1 = a, !.array2 = b,
                      !.vals = vs, !.k = 1,
                      !.iou = [v \in Range(vs) |-> NaN]]
    /\ UNCHANGED <<pr, rl, ld, plot>>

\* lines 83-86: one pass of the loop; arrays that do not broadcast raise
IoUIter ==
    /\ iou.pc = "loop"
    /\ iou.k <= Len(iou.vals)
    /\ iou' = IF ~Broadcastable(iou.array1, iou.array2)
              THEN [iou EXCEPT !.pc = "raised"]
              ELSE LET n == BroadcastLen(iou.array1, iou.array2)
                       a == Stretch(iou.array1, n)
                       b == Stretch(iou.array2, n)
                       val == iou.vals[iou.k]
                   IN [iou EXCEPT
                         !.k = @ + 1,
                         !.iou[val] = FDiv(Frac(Intersection(a, b, val), 1),
                                           Frac(Union(a, b, val), 1))]
    /\ UNCHANGED <<pr, rl, ld, plot>>

\* line 87
IoUReturn ==
    /\ iou.pc = "loop"
    /\ iou.k > Len(iou.vals)
    /\ iou' = [iou EXCEPT !.pc = "done"]
    /\ UNCHANGED <<pr, rl, ld, plot>>

---------------------------------------------------------------------------
(* run_lengths                                                             *)

\* the example of the docstring, lines 106-108
DocExample == <<1, 1, 1, 0, 0, 4, 4, 4, 4, 4, 4, 0, 1, 1, 1, 1>>

RunArrays == SeqsUpTo(0..MaxRunVal, MaxRunLen) \cup {DocExample}

RLIdle == [pc |-> "idle", array |-> <<>>, pos |-> 0, seqs |-> EmptyDict]

\* line 111: {k: [] for k in np.arange(np.max(array) + 1)}
InitSeqs(a) == [k \in 0..Max(Range(a)) |-> <<>>]

\* itertools.groupby: the last position of the group that starts at i
RunEndSingle(a, i) == i
RunEnd(a, i) ==
    Max({j \in i..Len(a) : \A m \in i..j : a[m] = a[i]})

\* line 111; np.max of an empty array raises ValueError
RLCall ==
    /\ NoCall
    /\ \E a \in RunArrays :
         rl' = IF a = <<>>
               THEN [RLIdle EXCEPT !.pc = "raised", !.array = a]
               ELSE [RLIdle EXCEPT !.pc = "loop", !.array = a, !.pos = 1,
                                   !.seqs = InitSeqs(a)]
    /\ UNCHANGED <<pr, iou, ld, plot>>

\* lines 112-113: one group; seqs[key] raises KeyError on a missing key
RLGroup ==
    /\ rl.pc = "loop"
    /\ rl.pos <= Len(rl.array)
    /\ LET key == rl.array[rl.pos]
           end == RunEnd(rl.array, rl.pos)
       IN rl' = IF key \notin DOMAIN rl.seqs
                THEN [rl EXCEPT !.pc = "raised"]
                ELSE [rl EXCEPT
                        !.pos = end + 1,
                        !.seqs[key] = Append(@, end - rl.pos + 1)]
    /\ UNCHANGED <<pr, iou, ld, plot>>

\* line 114
RLReturn ==
    /\ rl.pc = "loop"
    /\ rl.pos > Len(rl.array)
    /\ rl' = [rl EXCEPT !.pc = "done"]
    /\ UNCHANGED <<pr, iou, ld, plot>>

---------------------------------------------------------------------------
(* load_metrics_csv_as_df                                                  *)

\* line 151: the metric names of the training log
MetricNames == <<"loss", "loss_weak", "loss_strong", "loss_pred", "fc">>

MetricIdx(m) == CHOOSE i \in DOMAIN MetricNames : MetricNames[i] = m

Prefixes == {"val", "tr", "test"}

\* A csv row: its dataset index, its epoch, and one cell per column prefix.
\* The cell of column <prefix>_<metric> is the prefix's cell shifted by the
\* metric's position, so the columns of two metrics never hold one value.
RowsOf(D, E, C) == [dataset : D, epoch : E, cells : C]

Cell(row, prefix, m) ==
    FAdd(row.cells[prefix], Frac(3 * (MetricIdx(m) - 1), 1))

\* A csv file: the metrics it has tr_, val_ and test_ columns for, and its rows
TablesOf(M, R) == [metrics : {M}, rows : SeqsUpTo(R, MaxRows)]

\* the csv files handed to load_metrics_csv_as_df: the three cells of a row
\* differ from each other, and two rows may differ in every cell
LoaderTables ==
    TablesOf({"loss", "fc"},
             RowsOf(-1..1, 10..11,
                    {[val |-> Zero, tr |-> One, test |-> Two],
                     [val |-> One, tr |-> Two, test |-> Zero]}))

\* the metrics_list arguments
MetricLists ==
    {<<>>, <<"loss">>, <<"loss", "fc">>, <<"loss", "loss">>,
     <<"loss", "loss_weak">>}

\* the expt_ids arguments: None, or a list of names
NoIds == [given |-> FALSE, ids |-> <<>>]
Ids(l) == [given |-> TRUE, ids |-> l]
ExptIds == {NoIds, Ids(<<"a">>), Ids(<<"a", "b">>)}

\* a dataset label: a name, or the raw index
Name(s) == [tag |-> "str", s |-> s, i |-> 0]
Raw(i) == [tag |-> "int", s |-> "", i |-> i]

\* Python's list[i]: negative positions count from the end
InList(l, i) == (0 <= i /\ i < Len(l)) \/ (i < 0 /\ -i <= Len(l))
ListAt(l, i) == IF i >= 0 THEN l[i + 1] ELSE l[Len(l) + i + 1]

\* lines 203-208 raise IndexError on an index outside expt_ids
LabelOk(row, expt_ids) ==
    row.dataset = -1 \/ ~expt_ids.given \/ InList(expt_ids.ids, row.dataset)

\* lines 203-208
RawLabel(row, expt_ids) == Raw(row.dataset)
DatasetLabel(row, expt_ids) ==
    IF row.dataset = -1 THEN Name("all")
    ELSE IF expt_ids.given THEN Name(ListAt(expt_ids.ids, row.dataset))
    ELSE Raw(row.dataset)

\* lines 214, 220, 225: one record of the long table
Record(row, expt_ids, dtype, prefix, metric) ==
    [dataset |-> DatasetLabel(row, expt_ids), epoch |-> row.epoch,
     dtype |-> dtype, loss |-> metric, val |-> Cell(row, prefix, metric)]

\* lines 212-214, 218-220, 223-225: the records of one prefix, in list order
PrefixRecords(row, expt_ids, metrics_list, dtype, prefix) ==
    [j \in DOMAIN metrics_list |->
        Record(row, expt_ids, dtype, prefix, metrics_list[j])]

\* lines 210-225: the records of one row
ValFromTrain(row, expt_ids, metrics_list, test) ==
    IF test
    THEN PrefixRecords(row, expt_ids, metrics_list, "test", "test")
    ELSE PrefixRecords(row, expt_ids, metrics_list, "val", "tr")
         \o PrefixRecords(row, expt_ids, metrics_list, "train", "tr")
RowRecords(row, expt_ids, metrics_list, test) ==
    IF test
    THEN PrefixRecords(row, expt_ids, metrics_list, "test", "test")
    ELSE PrefixRecords(row, expt_ids, metrics_list, "val", "val")
         \o PrefixRecords(row, expt_ids, metrics_list, "train", "tr")

\* lines 201-225: the loop over the rows
RECURSIVE AllRecords(_, _, _, _)
AllRecords(rows, expt_ids, metrics_list, test) ==
    IF rows = <<>> THEN <<>>
    ELSE RowRecords(Head(rows), expt_ids, metrics_list, test)
         \o AllRecords(Tail(rows), expt_ids, metrics_list, test)

\* row['<prefix>_<metric>'] raises KeyError on a column the csv lacks;
\* no row, no lookup
ColumnsOk(table, metrics_list) ==
    table.rows = <<>> \/ \A j \in DOMAIN metrics_list :
                            metrics_list[j] \in table.metrics

\* lines 197-226: the long table, or the exception.  pd.concat of an empty
\* list raises ValueError.
LoadMetrics(table, metrics_list, expt_ids, test) ==
    IF \E i \in DOMAIN table.rows : ~LabelOk(table.rows[i], expt_ids)
    THEN [ok |-> FALSE, df |-> <<>>]
    ELSE IF ~ColumnsOk(table, metrics_list)
    THEN [ok |-> FALSE, df |-> <<>>]
    ELSE LET recs == AllRecords(table.rows, expt_ids, metrics_list, test)
         IN IF recs = <<>> THEN [ok |-> FALSE, df |-> <<>>]
            ELSE [ok |-> TRUE, df |-> recs]

LDIdle ==
    [pc |-> "idle", metric_file |-> [metrics |-> {}, rows |-> <<>>],
     metrics_list |-> <<>>, expt_ids |-> NoIds, test |-> FALSE, df |-> <<>>]

\* lines 177-226
LDCall ==
    /\ NoCall
    /\ \E table \in LoaderTables, ml \in MetricLists, ids \in ExptIds,
          test \in BOOLEAN :
         LET res == LoadMetrics(table, ml, ids, test)
         IN ld' = [LDIdle EXCEPT
                     !.pc = IF res.ok THEN "done" ELSE "raised",
                     !.metric_file = table, !.metrics_list = ml,
                     !.expt_ids = ids, !.test = test, !.df = res.df]
    /\ UNCHANGED <<pr, iou, rl, plot>>

---------------------------------------------------------------------------
(* plot_training_curves                                                    *)

\* line 165: metrics_df.epoch > 10
WarmupEpochs == 10

\* the csv files handed to plot_training_curves: a log row of an epoch, or
\* the row of the test values, whose tr_ and val_ cells are empty
PlotTables ==
    TablesOf(Range(MetricNames),
             RowsOf({0}, 10..11,
                    {[q \in Prefixes |-> IF q = "test" THEN NaN ELSE One],
                     [q \in Prefixes |-> IF q = "test" THEN One ELSE NaN]}))

\* save_file: <<>> is None, <<f>> is the path f
SaveFiles == {<<>>, <<"out/curves">>}

Formats == {"pdf", "bmp3"}

\* the formats the renderer writes; savefig raises ValueError on any other
Supported == {"pdf", "png", "jpeg"}

PlotIdle ==
    [pc |-> "idle", metrics_file |-> [metrics |-> {}, rows |-> <<>>],
     dtype |-> "val", expt_ids |-> NoIds, save_file |-> <<>>,
     format |-> "pdf", metrics_df |-> <<>>, hue |-> "None",
     data_queried |-> <<>>, figure |-> "none", written |-> {},
     exc |-> "none"]

\* lines 157-160
Hue(expt_ids) ==
    IF expt_ids.given /\ Len(expt_ids.ids) > 1 THEN "dataset" ELSE "None"

\* lines 164-165
Queried(df, dtype) ==
    SelectSeq(df, LAMBDA r :
        r.epoch > WarmupEpochs /\ ~IsNaN(r.val) /\ r.dtype = dtype)

\* lines 151-155: the metrics of the log, loaded as a long table
PlotCall ==
    /\ NoCall
    /\ \E table \in PlotTables, dt \in {"train", "val"}, ids \in ExptIds,
          sf \in SaveFiles, fmt \in Formats :
         LET res == LoadMetrics(table, MetricNames, ids, FALSE)
         IN plot' = [PlotIdle EXCEPT
                       !.pc = IF res.ok THEN "loaded" ELSE "raised",
                       !.exc = IF res.ok THEN "none" ELSE "load",
                       !.metrics_file = table, !.dtype = dt,
                       !.expt_ids = ids, !.save_file = sf, !.format = fmt,
                       !.metrics_df = res.df]
    /\ UNCHANGED <<pr, iou, rl, ld>>

\* lines 157-168: the rows to draw and the figure
PlotFacet ==
    /\ plot.pc = "loaded"
    /\ plot' = [plot EXCEPT
                  !.pc = "drawn",
                  !.hue = Hue(plot.expt_ids),
                  !.data_queried = Queried(plot.metrics_df, plot.dtype),
                  !.figure = "open"]
    /\ UNCHANGED <<pr, iou, rl, ld>>

\* lines 166-168 with no row left to draw: the plotting library may refuse
\* a grid with no panel, depending on its version
PlotFacetRaise ==
    /\ plot.pc = "loaded"
    /\ Queried(plot.metrics_df, plot.dtype) = <<>>
    /\ plot' = [plot EXCEPT
                  !.pc = "raised", !.exc = "FacetGrid",
                  !.hue = Hue(plot.expt_ids)]
    /\ UNCHANGED <<pr, iou, rl, ld>>

\* line 170, save_file is None: straight to line 174
PlotNoSave ==
    /\ plot.pc = "drawn"
    /\ plot.save_file = <<>>
    /\ plot' = [plot EXCEPT !.pc = "closing"]
    /\ UNCHANGED <<pr, iou, rl, ld>>

\* line 171: make_dir_if_not_exists(save_file) creates the directory
PlotMakeDir ==
    /\ plot.pc = "drawn"
    /\ plot.save_file # <<>>
    /\ plot' = [plot EXCEPT !.pc = "dir"]
    /\ UNCHANGED <<pr, iou, rl, ld>>

\* line 171: the directory cannot be created, OSError propagates
PlotMakeDirRaise ==
    /\ plot.pc = "drawn"
    /\ plot.save_file # <<>>
    /\ plot' = [plot EXCEPT !.pc = "raised", !.exc = "make_dir"]
    /\ UNCHANGED <<pr, iou, rl, ld>>

\* line 172: g.savefig(save_file + '.' + format, dpi=300, format=format)
PlotSaveFig ==
    /\ plot.pc = "dir"
    /\ plot.format \in Supported
    /\ plot' = [plot EXCEPT
                  !.pc = "closing",
                  !.written = @ \cup {<<plot.save_file[1], plot.format>>}]
    /\ UNCHANGED <<pr, iou, rl, ld>>

\* line 172: the write fails (unsupported format, full disk) and the
\* exception propagates
PlotSaveFigRaise ==
    /\ plot.pc = "dir"
    /\ plot' = [plot EXCEPT !.pc = "raised", !.exc = "savefig"]
    /\ UNCHANGED <<pr, iou, rl, ld>>

\* line 174: plt.close()
PlotClose ==
    /\ plot.pc = "closing"
    /\ plot' = [plot EXCEPT !.pc = "done", !.figure = "closed"]
    /\ UNCHANGED <<pr, iou, rl, ld>>

---------------------------------------------------------------------------
(* The specifications.                                                     *)

Init ==
    /\ pr = PRIdle
    /\ iou = IoUIdle
    /\ rl = RLIdle
    /\ ld = LDIdle
    /\ plot = PlotIdle

\* the three metric functions
NextMetrics ==
    \/ PRCall \/ PRScores \/ PRScoresNoLabels \/ PRScoresNoLabelsRaise
    \/ PRReplace \/ PRReturn
    \/ IoUCall \/ IoUIter \/ IoUReturn
    \/ RLCall \/ RLGroup \/ RLReturn

\* the loader and the plotter
NextCurves ==
    \/ LDCall
    \/ PlotCall \/ PlotFacet \/ PlotFacetRaise \/ PlotNoSave
    \/ PlotMakeDir \/ PlotMakeDirRaise \/ PlotSaveFig \/ PlotSaveFigRaise
    \/ PlotClose

Next == NextMetrics \/ NextCurves

SpecMetrics == Init /\ [][NextMetrics]_vars

SpecCurves == Init /\ [][NextCurves]_vars

Spec == Init /\ [][Next]_vars

---------------------------------------------------------------------------
(* Properties of get_precision_recall.                                     *)

PRDone == pr.pc = "done"

\* the positions whose true label is not the background class 0
Scored == {i \in DOMAIN pr.true_classes : pr.true_classes[i] # 0}

\* the class ids that occur in the ground truth at those positions
Observed == {pr.true_classes[i] : i \in Scored}

SupportOf(c) == Cardinality({i \in Scored : pr.true_classes[i] = c})

PredictedOf(c) == Cardinality({i \in Scored : pr.pred_classes[i] = c})

HitsOf(c) ==
    Cardinality({i \in Scored : pr.true_classes[i] = c
                                /\ pr.pred_classes[i] = c})

\* the predicted label is c wherever the true label is c
PerfectOnSupport(c) ==
    \A i \in DOMAIN pr.true_classes :
        pr.true_classes[i] = c => pr.pred_classes[i] = c

\* no scored position with another true label is predicted c
NoFalseAlarm(c) ==
    \A i \in Scored : pr.true_classes[i] # c => pr.pred_classes[i] # c

\* C1: every scored class has precision, recall and f1 undefined (NaN)
\* exactly when it has no ground-truth support, and a real ratio in [0,1]
\* whenever it occurs in the ground truth, correctly predicted or not.
C1_UndefinedIffUnsupported ==
    PRDone =>
        \A c \in DOMAIN pr.f1 :
            /\ IsNaN(pr.f1[c]) <=> SupportOf(c) = 0
            /\ IsNaN(pr.precision[c]) <=> SupportOf(c) = 0
            /\ IsNaN(pr.recall[c]) <=> SupportOf(c) = 0
            /\ SupportOf(c) > 0 => InUnit(pr.f1[c])

\* C2, as claimed: a supported class predicted as itself on all of its
\* support has precision = recall = f1 = 1, whatever is predicted elsewhere.
C2_PerfectWhateverElse ==
    PRDone =>
        \A c \in DOMAIN pr.f1 :
            SupportOf(c) > 0 /\ PerfectOnSupport(c) =>
                /\ pr.precision[c] = One
                /\ pr.recall[c] = One
                /\ pr.f1[c] = One

\* C2, amended: a supported class predicted as itself on all of its support
\* has recall = 1; its precision and f1 are 1 as well provided no scored
\* position with another true label is predicted as that class.
C2_PerfectOnSupport ==
    PRDone =>
        \A c \in DOMAIN pr.f1 :
            SupportOf(c) > 0 /\ PerfectOnSupport(c) =>
                /\ pr.recall[c] = One
                /\ NoFalseAlarm(c) =>
                      pr.precision[c] = One /\ pr.f1[c] = One

\* a class predicted perfectly, with no false alarm, beside a scored
\* position of another class and a background position predicted as it
C2_Witness ==
    /\ PRDone
    /\ \E c \in DOMAIN pr.f1 :
          /\ SupportOf(c) > 0 /\ PerfectOnSupport(c) /\ NoFalseAlarm(c)
          /\ pr.f1[c] = One
          /\ \E i \in DOMAIN pr.true_classes :
                pr.true_classes[i] # c /\ pr.pred_classes[i] # c

---------------------------------------------------------------------------
(* Properties of int_over_union.                                           *)

BothAt(v) ==
    Cardinality({i \in DOMAIN iou.array1 :
                    iou.array1[i] = v /\ iou.array2[i] = v})

EitherAt(v) ==
    Cardinality({i \in DOMAIN iou.array1 :
                    iou.array1[i] = v \/ iou.array2[i] = v})

\* C6: for equal-length non-empty arrays the keys are the values of either
\* array, each IoU is #(both = v) / #(either = v) with a denominator of at
\* least 1, lies in [0,1], and is 1 for every key when the arrays are equal.
C6_IoU ==
    (/\ iou.pc = "done"
     /\ Len(iou.array1) = Len(iou.array2)
     /\ iou.array1 # <<>>)
    => /\ DOMAIN iou.iou = Range(iou.array1) \cup Range(iou.array2)
       /\ \A v \in DOMAIN iou.iou :
             /\ EitherAt(v) >= 1
             /\ iou.iou[v] = Frac(BothAt(v), EitherAt(v))
             /\ InUnit(iou.iou[v])
             /\ iou.array1 = iou.array2 => iou.iou[v] = One

\* two arrays that agree on one of two positions: a key with IoU 1/2
C6_Witness ==
    /\ iou.pc = "done"
    /\ Len(iou.array1) = Len(iou.array2)
    /\ iou.array1 # iou.array2
    /\ \E v \in DOMAIN iou.iou : iou.iou[v] = Frac(1, 2)

---------------------------------------------------------------------------
(* Properties of run_lengths.                                              *)

\* the first positions of the maximal runs of v, in order
RunStarts(a, v) ==
    Sorted({i \in DOMAIN a : a[i] = v /\ (i = 1 \/ a[i - 1] # v)})

\* the length of the maximal run that starts at position i
RunLength(a, i) ==
    (CHOOSE j \in i..Len(a) :
        /\ \A m \in i..j : a[m] = a[i]
        /\ j = Len(a) \/ a[j + 1] # a[i]) - i + 1

RunsOf(a, v) ==
    LET st == RunStarts(a, v) IN [k \in DOMAIN st |-> RunLength(a, st[k])]

\* the result the docstring gives for its example
DocResult ==
    [k \in 0..4 |->
        CASE k = 0 -> <<2, 1>> [] k = 1 -> <<3, 4>> [] k = 4 -> <<6>>
          [] OTHER -> <<>>]

\* C3: the keys are every integer in [0, max(array)]; the list under v is
\* the lengths of the maximal runs of v in order of occurrence (empty when
\* v never occurs); the lengths sum to len(array); the docstring's example
\* gives {0:[2,1], 1:[3,4], 2:[], 3:[], 4:[6]}.
C3_RunLengths ==
    rl.pc = "done" =>
        /\ DOMAIN rl.seqs = 0..Max(Range(rl.array))
        /\ \A v \in DOMAIN rl.seqs : rl.seqs[v] = RunsOf(rl.array, v)
        /\ SumOver([v \in DOMAIN rl.seqs |-> SumSeq(rl.seqs[v])],
                   DOMAIN rl.seqs) = Len(rl.array)
        /\ rl.array = DocExample => rl.seqs = DocResult

C3_Witness ==
    /\ rl.pc = "done"
    /\ rl.array = DocExample
    /\ rl.seqs[0] = <<2, 1>>
    /\ rl.seqs[2] = <<>>

---------------------------------------------------------------------------
(* Contract violations.                                                    *)

\* C7: get_precision_recall called with a background id other than 0 or
\* with arrays of different lengths raises with no metric computed, and
\* run_lengths called on an empty array raises with no mapping built.
C7_FailFast ==
    /\ (/\ pr.pc # "idle"
        /\ \/ pr.background # 0
           \/ Len(pr.true_classes) # Len(pr.pred_classes))
       => /\ pr.pc = "raised"
          /\ pr.precision = <<>> /\ pr.recall = <<>> /\ pr.f1 = <<>>
    /\ (rl.pc # "idle" /\ rl.array = <<>>)
       => rl.pc = "raised" /\ rl.seqs = EmptyDict

\* a call with one more predicted label than true labels, rejected
C7_Witness ==
    /\ pr.pc = "raised"
    /\ pr.background = 0
    /\ Len(pr.pred_classes) = Len(pr.true_classes) + 1
    /\ pr.precision = <<>>

---------------------------------------------------------------------------
(* Properties of load_metrics_csv_as_df.                                   *)

LDRows == ld.metric_file.rows

\* how many places of the sequence s hold x
Times(s, x) == Cardinality({k \in DOMAIN s : s[k] = x})

\* the label the loader owes to source row i
LabelOfRow(i) ==
    IF LDRows[i].dataset = -1 THEN Name("all")
    ELSE IF ld.expt_ids.given
         THEN Name(ld.expt_ids.ids[LDRows[i].dataset + 1])
    ELSE Raw(LDRows[i].dataset)

\* the csv column a dtype is read from
ColumnOf(dtype) ==
    CASE dtype = "test" -> "test" [] dtype = "val" -> "val"
      [] dtype = "train" -> "tr"

\* the record owed to source row i and entry j of metrics_list under dtype
Owed(i, j, dtype) ==
    [dataset |-> LabelOfRow(i), epoch |-> LDRows[i].epoch, dtype |-> dtype,
     loss |-> ld.metrics_list[j],
     val |-> Cell(LDRows[i], ColumnOf(dtype), ld.metrics_list[j])]

Dtypes == IF ld.test THEN {"test"} ELSE {"train", "val"}

\* the (source row, metrics_list entry, dtype) triples of the call
Sources == (DOMAIN LDRows) \X (DOMAIN ld.metrics_list) \X Dtypes

\* the output rows of a dataset label, an epoch, a metric and a dtype
RowsFor(d, e, m, dtype) ==
    Cardinality({k \in DOMAIN ld.df :
        /\ ld.df[k].dataset = d /\ ld.df[k].epoch = e
        /\ ld.df[k].loss = m /\ ld.df[k].dtype = dtype})

\* the output rows of a dataset label and a metric, of any epoch
RowsOfPair(d, m) ==
    Cardinality({k \in DOMAIN ld.df :
        ld.df[k].dataset = d /\ ld.df[k].loss = m})

\* C8, as claimed: in test mode exactly one output row per (dataset, metric)
\* pair, of dtype "test"; otherwise exactly two output rows per (dataset,
\* epoch, metric), one "train" and one "val"; for every wide table.
C8_OnePerPair ==
    ld.pc = "done" =>
        \A i \in DOMAIN LDRows, j \in DOMAIN ld.metrics_list :
            LET d == LabelOfRow(i)
                e == LDRows[i].epoch
                m == ld.metrics_list[j]
            IN IF ld.test
               THEN RowsOfPair(d, m) = 1 /\ RowsFor(d, e, m, "test") = 1
               ELSE /\ RowsFor(d, e, m, "train") = 1
                    /\ RowsFor(d, e, m, "val") = 1
                    /\ RowsFor(d, e, m, "test") = 0

\* C8, amended: a load that returns yields, in test mode, exactly one output
\* row per source row and metrics_list entry, of dtype "test" with the value
\* of test_<metric>; otherwise exactly two per source row and metrics_list
\* entry, one "val" from val_<metric> and one "train" from tr_<metric>; and
\* no other row.
C8_OnePerSourceRow ==
    ld.pc = "done" =>
        /\ Len(ld.df) = Len(LDRows) * Len(ld.metrics_list)
                          * (IF ld.test THEN 1 ELSE 2)
        /\ LET owed == [t \in Sources |-> Owed(t[1], t[2], t[3])]
           IN /\ \A k \in DOMAIN ld.df :
                    /\ ld.df[k].dtype \in Dtypes
                    /\ \E t \in Sources : ld.df[k] = owed[t]
              /\ \A t \in Sources :
                    Times(ld.df, owed[t]) =
                        Cardinality({u \in Sources : owed[u] = owed[t]})

\* a test-mode load of two rows of one dataset: two rows for the pair
C8_Witness ==
    /\ ld.pc = "done"
    /\ ld.test
    /\ Len(LDRows) = 2
    /\ Len(ld.metrics_list) = 2
    /\ LabelOfRow(1) = LabelOfRow(2)
    /\ LDRows[1].epoch # LDRows[2].epoch
    /\ RowsOfPair(LabelOfRow(1), "loss") = 2

\* the rows of the long table whose dtype is "val"
ValRows == SelectSeq(ld.df, LAMBDA r : r.dtype = "val")

\* C9: a non-test load filtered to dtype "val" holds, for every source row
\* and metric, the value of val_<metric> of that row under the row's epoch
\* and dataset label, as many times as the source has it and nothing else.
C9_ValRoundTrip ==
    ld.pc = "done" /\ ~ld.test =>
        LET src == (DOMAIN LDRows) \X (DOMAIN ld.metrics_list)
            owed == [t \in src |-> Owed(t[1], t[2], "val")]
            vals == ValRows
        IN /\ Len(vals) = Cardinality(src)
           /\ \A k \in DOMAIN vals : \E t \in src : vals[k] = owed[t]
           /\ \A t \in src :
                 Times(vals, owed[t]) =
                     Cardinality({u \in src : owed[u] = owed[t]})

\* two rows, "all" and a named dataset, two metrics, val and tr apart
C9_Witness ==
    /\ ld.pc = "done"
    /\ ~ld.test
    /\ Len(LDRows) = 2
    /\ Len(ld.metrics_list) = 2
    /\ LabelOfRow(1) = Name("all")
    /\ LabelOfRow(2) = Name("b")
    /\ LDRows[1].cells["val"] # LDRows[1].cells["tr"]
    /\ LDRows[1].cells["val"] # LDRows[2].cells["val"]
    /\ Len(ValRows) = 4

---------------------------------------------------------------------------
(* Properties of plot_training_curves.                                     *)

\* C4: every call that created the figure ends with the figure closed,
\* whether nothing was saved, the save succeeded, or the directory creation
\* or the write failed.
C4_AlwaysClosed ==
    plot.pc \in {"done", "raised"} => plot.figure # "open"

===========================================================================
